---- MODULE Spec2Model ----
(***************************************************************************)
(* Backtest engine of the 80/20 leveraged-ETF / index-futures hedge        *)
(* strategy: runBacktest of src/src/services/backtestService.ts (the       *)
(* engine with monthly rebalancing and trade logs, lines 89-313).          *)
(*                                                                         *)
(* Numbers.  The engine computes in IEEE doubles.  The model computes in   *)
(* integers and exact fractions, over inputs on which the doubles are      *)
(* exact: integer prices, integer capital, and an etfRatio num/den with    *)
(* den a power of two.  Amounts are in currency units, as in the source.   *)
(*   - etfRatio is the pair [num, den];                                    *)
(*   - a moving-average value is held in hundredths (maValue = 2175000     *)
(*     stands for 21750.00): calculateMA rounds to two decimals;           *)
(*   - maxDrawdown, totalReturnPercent are fractions [n, d] in lowest      *)
(*     terms.                                                              *)
(* Dates are "YYYY-MM-DD" strings in the source; the model holds them as   *)
(* records [y, m, d], compared as the strings compare.                     *)
(***************************************************************************)
EXTENDS Integers, Sequences, FiniteSets, TLC

VARIABLES
    data,            \* the input series handed to runBacktest
    params,          \* BacktestParams
    tzWest,          \* environment: the runtime's local time zone is behind UTC
    pc,              \* "start", "loop", "done", "failed"
    filteredData,
    maValues,
    i,               \* loop index, 0-based as in the source
    etfShares,
    hedgeCapital,
    hedgeContracts,
    hedgeEntryPrice,
    totalHedgePnL,
    hedgeTrades,
    rebalanceTrades,
    lastMonth,
    dailyResults,
    tradeLogs,
    maxEquity,
    maxDrawdown,
    result,          \* <<>> until the run returns, then <<BacktestResult>>
    thrown,          \* "" until the run throws, then the error message
    call,            \* the call under way: runBacktest, or a function of
                     \* utils/calculations.ts with its arguments
    returned         \* <<>> until that function returns, then <<its value>>

vars == <<data, params, tzWest, pc, filteredData, maValues, i, etfShares,
          hedgeCapital, hedgeContracts, hedgeEntryPrice, totalHedgePnL,
          hedgeTrades, rebalanceTrades, lastMonth, dailyResults, tradeLogs,
          maxEquity, maxDrawdown, result, thrown, call, returned>>

(***************************************************************************)
(* Bounds of the model and the input domain.  The capitals, the margin and *)
(* the multipliers are chosen around the application's defaults            *)
(* (1000000, 85000, 2.0) so that a hedge capacity of 0, of 1 and of many   *)
(* contracts, rebalance trades of 0 and of whole lots, and closes at a     *)
(* profit and at a loss all occur.                                         *)
(***************************************************************************)
\* Longest input series.
MaxDays == 4

\* Gap-tolerant trading calendar the input series are cut from.
Calendar ==
    << [y |-> 2024, m |-> 1, d |-> 30],
       [y |-> 2024, m |-> 1, d |-> 31],
       [y |-> 2024, m |-> 2, d |-> 1],
       [y |-> 2024, m |-> 3, d |-> 1],
       [y |-> 2025, m |-> 3, d |-> 3] >>

\* <<indexPrice, etfPrice>> of one observation.
PricePoints == { <<21000, 180>>, <<22500, 180>>, <<22500, 200>>, <<25000, 200>> }

Capitals == {1000000, 10000000}
Ratios == { [num |-> 1, den |-> 2], [num |-> 3, den |-> 4] }
MaPeriods == {1, 2, 3}
Margins == {85000}
SafetyMultipliers == {1, 3}

(***************************************************************************)
(* Arithmetic helpers.                                                     *)
(***************************************************************************)
Abs(x) == IF x < 0 THEN -x ELSE x

\* Math.floor(n / d) for d > 0.
Floor(n, d) == n \div d

\* Math.round(n / d) for d > 0: nearest integer, halves towards +infinity.
Round(n, d) == (2 * n + d) \div (2 * d)

RECURSIVE Gcd(_, _)
Gcd(a, b) == IF b = 0 THEN a ELSE Gcd(b, a % b)

Sign(n) == IF n > 0 THEN 1 ELSE IF n < 0 THEN -1 ELSE 0

\* The quotient n / d of two doubles (d >= 0) as a fraction in lowest terms.
\* A division by zero does not throw: it gives NaN (0/0), Infinity or
\* -Infinity, held as [n |-> 0, 1 or -1, d |-> 0].
Frac(n, d) ==
    IF d = 0
    THEN [n |-> Sign(n), d |-> 0]
    ELSE LET g == Gcd(Abs(n), d)
         IN  [n |-> n \div g, d |-> d \div g]

\* Number.isFinite
IsFinite(q) == q.d # 0

FracGT(a, b) == a.n * b.d > b.n * a.d

(***************************************************************************)
(* Dates.                                                                  *)
(***************************************************************************)
\* a <= b on "YYYY-MM-DD" strings.
DateLE(a, b) ==
    \/ a.y < b.y
    \/ a.y = b.y /\ a.m < b.m
    \/ a.y = b.y /\ a.m = b.m /\ a.d <= b.d

\* Mutant of GetMonth: getDate() for getMonth(), the day of the month.
GetMonth_DayOfMonth(date, west) == date.d

\* Mutant of GetMonth: the year counted in, as in 12 * getFullYear() + getMonth().
GetMonth_WithYear(date, west) ==
    IF west /\ date.d = 1
    THEN 12 * date.y + date.m - 2
    ELSE 12 * date.y + date.m - 1

\* new Date(date).getMonth(): a date-only string is parsed as UTC midnight and
\* getMonth() answers in local time, so behind UTC it is the month of the
\* day before.
GetMonth(date, west) ==
    IF west /\ date.d = 1 THEN (date.m + 10) % 12 ELSE date.m - 1

(***************************************************************************)
(* calculateMA, in hundredths; 0 is the "not enough data" entry.           *)
(***************************************************************************)
RECURSIVE SumSeq(_)
SumSeq(s) == IF s = <<>> THEN 0 ELSE Head(s) + SumSeq(Tail(s))

\* A warm-up one day short: the entry of index period-2 is already a quotient.
MAEntry_Early(prices, period, k) ==
    IF k < period - 2
    THEN 0
    ELSE Round(SumSeq(SubSeq(prices, IF k - period + 2 < 1 THEN 1 ELSE k - period + 2,
                             k + 1)) * 100, period)

\* Entry of 0-based index k.
MAEntry(prices, period, k) ==
    IF k < period - 1
    THEN 0
    ELSE Round(SumSeq(SubSeq(prices, k - period + 2, k + 1)) * 100, period)

calculateMA(prices, period) ==
    [k \in 1..Len(prices) |-> MAEntry(prices, period, k - 1)]

(***************************************************************************)
(* runBacktest: filtering and initialization (lines 93-138).               *)
(***************************************************************************)
InRange(o, p) == DateLE(p.startDate, o.date) /\ DateLE(o.date, p.endDate)

\* Mutants of FilterData: the upper bound forgotten; the lower bound strict.
FilterData_NoEndBound(d, p) == SelectSeq(d, LAMBDA o : DateLE(p.startDate, o.date))

FilterData_StrictStart(d, p) ==
    SelectSeq(d, LAMBDA o : InRange(o, p) /\ o.date # p.startDate)

FilterData(d, p) == SelectSeq(d, LAMBDA o : InRange(o, p))

\* The index prices of the whole input, in range or not.
MAInput_Untrimmed(d, p) == [k \in 1..Len(d) |-> d[k].indexPrice]

\* Line 103: the index prices the moving average is computed over, those of
\* the filtered range.
MAInput(d, p) == [k \in 1..Len(FilterData(d, p)) |-> FilterData(d, p)[k].indexPrice]

\* initialCapital * (1 - etfRatio); a whole amount on the model's inputs.
HedgeAllocation(p) ==
    (p.initialCapital * (p.etfRatio.den - p.etfRatio.num)) \div p.etfRatio.den

\* Mutant of InitialShares: rounded to the nearest lot instead of floored.
InitialShares_Rounded(p, firstEtfPrice) ==
    Round(p.initialCapital * p.etfRatio.num, p.etfRatio.den * firstEtfPrice * 1000)

\* Math.floor(etfAllocation / (firstEtfPrice * 1000)), in lots, with
\* etfAllocation = initialCapital * etfRatio.
InitialShares(p, firstEtfPrice) ==
    Floor(p.initialCapital * p.etfRatio.num, p.etfRatio.den * firstEtfPrice * 1000)

InitialBuyLog(p, first) ==
    LET initialShares == InitialShares(p, first.etfPrice)
    IN  [ date |-> first.date,
          type |-> "buy",
          shares |-> initialShares,
          price |-> first.etfPrice,
          amount |-> initialShares * 1000 * first.etfPrice,
          etfSharesAfter |-> initialShares,
          hedgeCapitalAfter |-> HedgeAllocation(p),
          totalEquityAfter |-> p.initialCapital ]

(***************************************************************************)
(* One day of the loop: monthly rebalance (lines 145-198).                 *)
(***************************************************************************)
EtfValue(shares, etfPrice) == shares * 1000 * etfPrice

\* Mutant of RebalanceDue: the enableRebalance switch forgotten.
RebalanceDue_IgnoresSwitch(p, idx, currentMonth, lastM, contracts) ==
    idx > 0 /\ currentMonth # lastM /\ contracts = 0

\* Mutant of RebalanceDue: the "no open hedge" test forgotten.
RebalanceDue_DuringHedge(p, idx, currentMonth, lastM, contracts) ==
    p.enableRebalance /\ idx > 0 /\ currentMonth # lastM

RebalanceDue(p, idx, currentMonth, lastM, contracts) ==
    p.enableRebalance /\ idx > 0 /\ currentMonth # lastM /\ contracts = 0

\* targetEtfValue - currentEtfValue, times etfRatio.den.
RebalanceDiff(p, etfValue, hc) ==
    (etfValue + hc) * p.etfRatio.num - etfValue * p.etfRatio.den

\* Math.abs(diff) > totalEquity * 0.01
DiffSignificant(p, etfValue, hc) ==
    Abs(RebalanceDiff(p, etfValue, hc)) > Floor((etfValue + hc) * p.etfRatio.den, 100)

\* Mutant of SharesToTrade: floored to whole lots instead of rounded.
SharesToTrade_Floored(p, etfValue, hc, etfPrice) ==
    Floor(RebalanceDiff(p, etfValue, hc), p.etfRatio.den * etfPrice * 1000)

\* Math.round(diff / (etfPrice * 1000))
SharesToTrade(p, etfValue, hc, etfPrice) ==
    Round(RebalanceDiff(p, etfValue, hc), p.etfRatio.den * etfPrice * 1000)

\* Mutant of Rebalance: the trade amount taken out of the reserve on a sell
\* as on a buy.
Rebalance_AlwaysDebits(p, idx, obs, currentMonth, lastM, shares, hc, contracts) ==
    LET etfValue == EtfValue(shares, obs.etfPrice)
        sharesToTrade == SharesToTrade(p, etfValue, hc, obs.etfPrice)
        tradeAmount == Abs(sharesToTrade) * 1000 * obs.etfPrice
        newShares == shares + sharesToTrade
        newHc == hc - tradeAmount
    IN  IF /\ RebalanceDue(p, idx, currentMonth, lastM, contracts)
           /\ DiffSignificant(p, etfValue, hc)
           /\ sharesToTrade # 0
        THEN [ etfShares |-> newShares,
               hedgeCapital |-> newHc,
               etfValue |-> EtfValue(newShares, obs.etfPrice),
               traded |-> 1,
               logs |-> << [ date |-> obs.date,
                             type |-> "rebalance",
                             shares |-> sharesToTrade,
                             price |-> obs.etfPrice,
                             amount |-> tradeAmount,
                             etfSharesAfter |-> newShares,
                             hedgeCapitalAfter |-> newHc,
                             totalEquityAfter |-> etfValue + hc ] >> ]
        ELSE [ etfShares |-> shares,
               hedgeCapital |-> hc,
               etfValue |-> etfValue,
               traded |-> 0,
               logs |-> <<>> ]

\* The state after the rebalance step of a day: shares, reserve, ETF value,
\* and the log entries the step pushes (none or one).
Rebalance(p, idx, obs, currentMonth, lastM, shares, hc, contracts) ==
    LET etfValue == EtfValue(shares, obs.etfPrice)
        sharesToTrade == SharesToTrade(p, etfValue, hc, obs.etfPrice)
        tradeAmount == Abs(sharesToTrade) * 1000 * obs.etfPrice
        newShares == shares + sharesToTrade
        newHc == IF sharesToTrade > 0 THEN hc - tradeAmount ELSE hc + tradeAmount
    IN  IF /\ RebalanceDue(p, idx, currentMonth, lastM, contracts)
           /\ DiffSignificant(p, etfValue, hc)
           /\ sharesToTrade # 0
        THEN [ etfShares |-> newShares,
               hedgeCapital |-> newHc,
               etfValue |-> EtfValue(newShares, obs.etfPrice),
               traded |-> 1,
               logs |-> << [ date |-> obs.date,
                             type |-> "rebalance",
                             shares |-> sharesToTrade,
                             price |-> obs.etfPrice,
                             amount |-> tradeAmount,
                             etfSharesAfter |-> newShares,
                             hedgeCapitalAfter |-> newHc,
                             totalEquityAfter |-> etfValue + hc ] >> ]
        ELSE [ etfShares |-> shares,
               hedgeCapital |-> hc,
               etfValue |-> etfValue,
               traded |-> 0,
               logs |-> <<>> ]

(***************************************************************************)
(* One day of the loop: signal and hedge transition (lines 200-256).       *)
(***************************************************************************)
\* Mutant of IsBelowMA: an index equal to the average counted as below it.
IsBelowMA_OrEqual(maValue, indexPrice) == maValue > 0 /\ indexPrice * 100 <= maValue

\* maValue > 0 && indexPrice < maValue   (maValue in hundredths)
IsBelowMA(maValue, indexPrice) == maValue > 0 /\ indexPrice * 100 < maValue

\* Mutant of CanShort: the safety multiplier forgotten.
CanShort_NoSafety(p, hc) == Floor(hc, p.marginPerContract)

\* Mutant of CanShort: the size of the reserve taken, whatever its sign.
CanShort_Magnitude(p, hc) == Floor(Abs(hc), p.marginPerContract * p.safetyMultiplier)

\* Math.floor(hedgeCapital / (marginPerContract * safetyMultiplier))
CanShort(p, hc) == Floor(hc, p.marginPerContract * p.safetyMultiplier)

\* Mutant of ShouldOpen: the "no open hedge" test forgotten.
ShouldOpen_AnyTime(belowMA, contracts) == belowMA

\* isBelowMA && hedgeContracts === 0
ShouldOpen(belowMA, contracts) == belowMA /\ contracts = 0

\* !isBelowMA && hedgeContracts > 0
ShouldClose(belowMA, contracts) == ~belowMA /\ contracts > 0

\* Mutant of HedgePnL: the sign of a long position.
HedgePnL_Long(contracts, entryPrice, indexPrice) ==
    contracts * (indexPrice - entryPrice) * 50

\* hedgeContracts * (hedgeEntryPrice - indexPrice) * 50
HedgePnL(contracts, entryPrice, indexPrice) ==
    contracts * (entryPrice - indexPrice) * 50

\* Mutant of Hedge: the margin of the contracts taken out of the reserve when
\* the hedge opens.
Hedge_MarginDeducted(p, obs, maValue, r, contracts, entryPrice) ==
    LET belowMA == IsBelowMA(maValue, obs.indexPrice)
        canShort == CanShort(p, r.hedgeCapital)
        pnl == HedgePnL(contracts, entryPrice, obs.indexPrice)
        keep == [ hedgeCapital |-> r.hedgeCapital,
                  hedgeContracts |-> contracts,
                  hedgeEntryPrice |-> entryPrice,
                  dailyHedgePnL |-> 0,
                  opened |-> 0,
                  logs |-> <<>> ]
    IN  IF ~(maValue > 0)
        THEN keep @@ [signal |-> "none"]
        ELSE IF ShouldOpen(belowMA, contracts)
        THEN IF canShort > 0
             THEN [ hedgeCapital |-> r.hedgeCapital - canShort * p.marginPerContract,
                    hedgeContracts |-> canShort,
                    hedgeEntryPrice |-> obs.indexPrice,
                    dailyHedgePnL |-> 0,
                    opened |-> 1,
                    signal |-> "hedge",
                    logs |-> << [ date |-> obs.date,
                                  type |-> "hedge_open",
                                  contracts |-> canShort,
                                  price |-> obs.indexPrice,
                                  amount |-> canShort * p.marginPerContract,
                                  etfSharesAfter |-> r.etfShares,
                                  hedgeCapitalAfter |->
                                      r.hedgeCapital - canShort * p.marginPerContract,
                                  totalEquityAfter |-> r.etfValue + r.hedgeCapital ] >> ]
             ELSE keep @@ [signal |-> "none"]
        ELSE IF ShouldClose(belowMA, contracts)
        THEN [ hedgeCapital |-> r.hedgeCapital + pnl,
               hedgeContracts |-> 0,
               hedgeEntryPrice |-> 0,
               dailyHedgePnL |-> pnl,
               opened |-> 0,
               signal |-> "long",
               logs |-> << [ date |-> obs.date,
                             type |-> "hedge_close",
                             contracts |-> contracts,
                             price |-> obs.indexPrice,
                             amount |-> 0,
                             pnl |-> pnl,
                             etfSharesAfter |-> r.etfShares,
                             hedgeCapitalAfter |-> r.hedgeCapital + pnl,
                             totalEquityAfter |-> r.etfValue + r.hedgeCapital + pnl ] >> ]
        ELSE IF contracts > 0
        THEN keep @@ [signal |-> "hedge"]
        ELSE keep @@ [signal |-> "long"]

\* The state after the hedge step of a day.  r is the state after the
\* rebalance step.
Hedge(p, obs, maValue, r, contracts, entryPrice) ==
    LET belowMA == IsBelowMA(maValue, obs.indexPrice)
        canShort == CanShort(p, r.hedgeCapital)
        pnl == HedgePnL(contracts, entryPrice, obs.indexPrice)
        keep == [ hedgeCapital |-> r.hedgeCapital,
                  hedgeContracts |-> contracts,
                  hedgeEntryPrice |-> entryPrice,
                  dailyHedgePnL |-> 0,
                  opened |-> 0,
                  logs |-> <<>> ]
    IN  IF ~(maValue > 0)
        THEN keep @@ [signal |-> "none"]
        ELSE IF ShouldOpen(belowMA, contracts)
        THEN IF canShort > 0
             THEN [ hedgeCapital |-> r.hedgeCapital,
                    hedgeContracts |-> canShort,
                    hedgeEntryPrice |-> obs.indexPrice,
                    dailyHedgePnL |-> 0,
                    opened |-> 1,
                    signal |-> "hedge",
                    logs |-> << [ date |-> obs.date,
                                  type |-> "hedge_open",
                                  contracts |-> canShort,
                                  price |-> obs.indexPrice,
                                  amount |-> canShort * p.marginPerContract,
                                  etfSharesAfter |-> r.etfShares,
                                  hedgeCapitalAfter |-> r.hedgeCapital,
                                  totalEquityAfter |-> r.etfValue + r.hedgeCapital ] >> ]
             ELSE keep @@ [signal |-> "none"]
        ELSE IF ShouldClose(belowMA, contracts)
        THEN [ hedgeCapital |-> r.hedgeCapital + pnl,
               hedgeContracts |-> 0,
               hedgeEntryPrice |-> 0,
               dailyHedgePnL |-> pnl,
               opened |-> 0,
               signal |-> "long",
               logs |-> << [ date |-> obs.date,
                             type |-> "hedge_close",
                             contracts |-> contracts,
                             price |-> obs.indexPrice,
                             amount |-> 0,
                             pnl |-> pnl,
                             etfSharesAfter |-> r.etfShares,
                             hedgeCapitalAfter |-> r.hedgeCapital + pnl,
                             totalEquityAfter |-> r.etfValue + r.hedgeCapital + pnl ] >> ]
        ELSE IF contracts > 0
        THEN keep @@ [signal |-> "hedge"]
        ELSE keep @@ [signal |-> "long"]

(***************************************************************************)
(* One day of the loop: mark-to-market and drawdown (lines 258-275).       *)
(***************************************************************************)
\* Mutant of UnrealizedHedgePnL: the open position is not marked to market.
UnrealizedHedgePnL_Dropped(contracts, entryPrice, indexPrice) == 0

UnrealizedHedgePnL(contracts, entryPrice, indexPrice) ==
    IF contracts > 0 THEN contracts * (entryPrice - indexPrice) * 50 ELSE 0

TotalEquity(etfValue, hc, unrealizedHedgePnL) == etfValue + hc + unrealizedHedgePnL

NewMaxEquity(totalEquity, maxEq) == IF totalEquity > maxEq THEN totalEquity ELSE maxEq

\* (maxEquity - totalEquity) / maxEquity, maxEquity already raised.
Drawdown(totalEquity, maxEq) == Frac(maxEq - totalEquity, maxEq)

\* Mutant of NewMaxDrawdown: the latest drawdown kept instead of the largest.
NewMaxDrawdown_Latest(drawdown, maxDd) == drawdown

NewMaxDrawdown(drawdown, maxDd) == IF FracGT(drawdown, maxDd) THEN drawdown ELSE maxDd

DailyResultOf(obs, maValue, r, h, totalEquity) ==
    [ date |-> obs.date,
      indexPrice |-> obs.indexPrice,
      etfPrice |-> obs.etfPrice,
      maValue |-> maValue,
      etfShares |-> r.etfShares,
      etfValue |-> r.etfValue,
      hedgeCapital |-> h.hedgeCapital,
      hedgeContracts |-> h.hedgeContracts,
      hedgePnL |-> h.dailyHedgePnL,
      totalEquity |-> totalEquity,
      signal |-> h.signal ]

(***************************************************************************)
(* Summary (lines 292-312).                                                *)
(***************************************************************************)
\* Mutant of SummaryOf: the open position of the last day counted in
\* totalHedgePnL.
SummaryOf_MarkedPnL(p, results, maxDd, hedgePnLTotal, nHedge, nRebalance) ==
    LET finalEquity == results[Len(results)].totalEquity
        totalReturn == finalEquity - p.initialCapital
    IN  [ startDate |-> p.startDate,
          endDate |-> p.endDate,
          initialCapital |-> p.initialCapital,
          finalEquity |-> finalEquity,
          totalReturn |-> totalReturn,
          totalReturnPercent |-> Frac(totalReturn * 100, p.initialCapital),
          maxDrawdown |-> Frac(maxDd.n * 100, maxDd.d),
          totalHedgePnL |-> hedgePnLTotal
                              + (finalEquity - results[Len(results)].etfValue
                                     - results[Len(results)].hedgeCapital),
          hedgeTrades |-> nHedge,
          rebalanceTrades |-> nRebalance ]

SummaryOf(p, results, maxDd, hedgePnLTotal, nHedge, nRebalance) ==
    LET finalEquity == results[Len(results)].totalEquity
        totalReturn == finalEquity - p.initialCapital
    IN  [ startDate |-> p.startDate,
          endDate |-> p.endDate,
          initialCapital |-> p.initialCapital,
          finalEquity |-> finalEquity,
          totalReturn |-> totalReturn,
          totalReturnPercent |-> Frac(totalReturn * 100, p.initialCapital),
          maxDrawdown |-> Frac(maxDd.n * 100, maxDd.d),
          totalHedgePnL |-> hedgePnLTotal,
          hedgeTrades |-> nHedge,
          rebalanceTrades |-> nRebalance ]

(***************************************************************************)
(* The inputs of a run.                                                    *)
(***************************************************************************)
Observation(date, pp) == [date |-> date, indexPrice |-> pp[1], etfPrice |-> pp[2]]

\* Every series of n observations on the n calendar dates from position a.
SeriesAt(a, n) ==
    { [k \in 1..n |-> Observation(Calendar[a + k - 1], f[k])] :
        f \in [1..n -> PricePoints] }

\* Date-sorted series of at most MaxDays observations.
SeriesFrom(a) ==
    UNION { SeriesAt(a, n) : n \in { m \in 1..MaxDays : a + m - 1 <= Len(Calendar) } }

AllSeries == {<<>>} \cup UNION { SeriesFrom(a) : a \in 1..Len(Calendar) }

FullRange == [startDate |-> [y |-> 2024, m |-> 1, d |-> 1],
              endDate |-> [y |-> 2025, m |-> 12, d |-> 31]]

\* Cuts the first and the last calendar date off.
InnerRange == [startDate |-> [y |-> 2024, m |-> 1, d |-> 31],
               endDate |-> [y |-> 2024, m |-> 3, d |-> 1]]

\* startDate > endDate.
InvertedRange == [startDate |-> [y |-> 2025, m |-> 1, d |-> 1],
                  endDate |-> [y |-> 2024, m |-> 1, d |-> 1]]

DateRanges == {FullRange, InnerRange, InvertedRange}

ParamsOver(ranges, rebalance) ==
    { [ startDate |-> r.startDate,
        endDate |-> r.endDate,
        initialCapital |-> c,
        etfRatio |-> q,
        maPeriod |-> n,
        marginPerContract |-> mg,
        safetyMultiplier |-> sm,
        enableRebalance |-> rb ] :
        r \in ranges, c \in Capitals, q \in Ratios, n \in MaPeriods,
        mg \in Margins, sm \in SafetyMultipliers, rb \in rebalance }

InitOver(series, paramSet, zones) ==
    /\ data \in series
    /\ params \in paramSet
    /\ tzWest \in zones
    /\ pc = "start"
    /\ filteredData = <<>>
    /\ maValues = <<>>
    /\ i = 0
    /\ etfShares = 0
    /\ hedgeCapital = 0
    /\ hedgeContracts = 0
    /\ hedgeEntryPrice = 0
    /\ totalHedgePnL = 0
    /\ hedgeTrades = 0
    /\ rebalanceTrades = 0
    /\ lastMonth = 0
    /\ dailyResults = <<>>
    /\ tradeLogs = <<>>
    /\ maxEquity = 0
    /\ maxDrawdown = [n |-> 0, d |-> 1]
    /\ result = <<>>
    /\ thrown = ""
    /\ call = [fn |-> "runBacktest"]
    /\ returned = <<>>

\* Every series and parameter set of the domain, in a runtime whose local
\* zone is not behind UTC (the application's users are at UTC+8).
Init == InitOver(AllSeries, ParamsOver(DateRanges, BOOLEAN), {FALSE})

(***************************************************************************)
(* runBacktest as a state machine.                                         *)
(***************************************************************************)
\* Lines 93-100: the filtered range is empty, the run throws.
Fail ==
    /\ pc = "start"
    /\ FilterData(data, params) = <<>>
    /\ pc' = "failed"
    /\ thrown' = "No data in selected date range"
    /\ UNCHANGED <<data, params, tzWest, filteredData, maValues, i, etfShares,
                   hedgeCapital, hedgeContracts, hedgeEntryPrice, totalHedgePnL,
                   hedgeTrades, rebalanceTrades, lastMonth, dailyResults,
                   tradeLogs, maxEquity, maxDrawdown, result>>
    /\ UNCHANGED <<call, returned>>

\* Lines 93-138: filter, moving average, initial position, initial buy entry.
Start ==
    /\ pc = "start"
    /\ FilterData(data, params) # <<>>
    /\ LET fd == FilterData(data, params)
       IN  /\ filteredData' = fd
           /\ maValues' = calculateMA(MAInput(data, params), params.maPeriod)
           /\ etfShares' = InitialShares(params, fd[1].etfPrice)
           /\ hedgeCapital' = HedgeAllocation(params)
           /\ lastMonth' = GetMonth(fd[1].date, tzWest)
           /\ tradeLogs' = <<InitialBuyLog(params, fd[1])>>
    /\ hedgeContracts' = 0
    /\ hedgeEntryPrice' = 0
    /\ totalHedgePnL' = 0
    /\ hedgeTrades' = 0
    /\ rebalanceTrades' = 0
    /\ dailyResults' = <<>>
    /\ maxEquity' = params.initialCapital
    /\ maxDrawdown' = [n |-> 0, d |-> 1]
    /\ i' = 0
    /\ pc' = "loop"
    /\ UNCHANGED <<data, params, tzWest, result, thrown>>
    /\ UNCHANGED <<call, returned>>

\* Lines 140-290: one iteration of the day loop.
Day ==
    /\ pc = "loop"
    /\ i < Len(filteredData)
    /\ LET obs == filteredData[i + 1]
           maValue == maValues[i + 1]
           currentMonth == GetMonth(obs.date, tzWest)
           r == Rebalance(params, i, obs, currentMonth, lastMonth,
                          etfShares, hedgeCapital, hedgeContracts)
           h == Hedge(params, obs, maValue, r, hedgeContracts, hedgeEntryPrice)
           unrealizedHedgePnL ==
               UnrealizedHedgePnL(h.hedgeContracts, h.hedgeEntryPrice, obs.indexPrice)
           totalEquity == TotalEquity(r.etfValue, h.hedgeCapital, unrealizedHedgePnL)
           maxEq == NewMaxEquity(totalEquity, maxEquity)
       IN  /\ etfShares' = r.etfShares
           /\ rebalanceTrades' = rebalanceTrades + r.traded
           /\ lastMonth' = currentMonth
           /\ hedgeCapital' = h.hedgeCapital
           /\ hedgeContracts' = h.hedgeContracts
           /\ hedgeEntryPrice' = h.hedgeEntryPrice
           /\ hedgeTrades' = hedgeTrades + h.opened
           /\ totalHedgePnL' = totalHedgePnL + h.dailyHedgePnL
           /\ tradeLogs' = tradeLogs \o r.logs \o h.logs
           /\ maxEquity' = maxEq
           /\ maxDrawdown' = NewMaxDrawdown(Drawdown(totalEquity, maxEq), maxDrawdown)
           /\ dailyResults' =
                  Append(dailyResults, DailyResultOf(obs, maValue, r, h, totalEquity))
    /\ i' = i + 1
    /\ UNCHANGED <<data, params, tzWest, pc, filteredData, maValues, result, thrown>>
    /\ UNCHANGED <<call, returned>>

\* Lines 292-312: the summary, and the return.
Finish ==
    /\ pc = "loop"
    /\ i = Len(filteredData)
    /\ result' = << [ dailyResults |-> dailyResults,
                      tradeLogs |-> tradeLogs,
                      summary |-> SummaryOf(params, dailyResults, maxDrawdown,
                                            totalHedgePnL, hedgeTrades,
                                            rebalanceTrades) ] >>
    /\ pc' = "done"
    /\ UNCHANGED <<data, params, tzWest, filteredData, maValues, i, etfShares,
                   hedgeCapital, hedgeContracts, hedgeEntryPrice, totalHedgePnL,
                   hedgeTrades, rebalanceTrades, lastMonth, dailyResults,
                   tradeLogs, maxEquity, maxDrawdown, thrown>>
    /\ UNCHANGED <<call, returned>>

Next == Fail \/ Start \/ Day \/ Finish

Spec == Init /\ [][Next]_vars

(***************************************************************************)
(* The same engine in either kind of local zone, on trading days around a  *)
(* month end.                                                              *)
(***************************************************************************)
MonthEnd == << [y |-> 2024, m |-> 1, d |-> 30],
               [y |-> 2024, m |-> 1, d |-> 31],
               [y |-> 2024, m |-> 2, d |-> 1],
               [y |-> 2024, m |-> 2, d |-> 2] >>

MonthEndSeriesAt(a, n) ==
    { [k \in 1..n |-> Observation(MonthEnd[a + k - 1], f[k])] :
        f \in [1..n -> PricePoints] }

MonthEndSeriesFrom(a) ==
    UNION { MonthEndSeriesAt(a, n) : n \in 1..(Len(MonthEnd) - a + 1) }

MonthEndSeries ==
    {<<>>} \cup UNION { MonthEndSeriesFrom(a) : a \in 1..Len(MonthEnd) }

\* tzWest = TRUE: the local zone is behind UTC.
InitZones == InitOver(MonthEndSeries, ParamsOver({FullRange}, {TRUE}), BOOLEAN)

SpecZones == InitZones /\ [][Next]_vars

(***************************************************************************)
(* utils/calculations.ts: the functions behind the dashboard, which the    *)
(* claims compare with the engine.  Quotients are fractions [n, d], as in   *)
(* the engine.                                                             *)
(***************************************************************************)
LEVERAGE == 2

SHARES_PER_UNIT == 1000

\* Default arguments of generatePnLScenarios.
DefaultRange == 1500

DefaultStep == 100

\* k * q and q - c for integers k, c.
Times(k, q) == IF q.d = 0 THEN [n |-> Sign(k) * q.n, d |-> 0] ELSE Frac(k * q.n, q.d)

Minus(q, c) == IF q.d = 0 THEN q ELSE Frac(q.n - c * q.d, q.d)

calculateEtfPnL(shares, currentPrice, costPrice) ==
    LET currentValue == shares * SHARES_PER_UNIT * currentPrice
        costValue == shares * SHARES_PER_UNIT * costPrice
        pnl == currentValue - costValue
    IN  [ pnl |-> pnl,
          pnlPercent |-> IF costValue > 0
                         THEN Frac(pnl * 100, costValue)
                         ELSE Frac(0, 1) ]

\* etfPrice * (1 + (delta / baseIndexPrice) * LEVERAGE)
NewEtfPrice(baseIndexPrice, etfPrice, delta) ==
    Frac(etfPrice * (baseIndexPrice + LEVERAGE * delta), baseIndexPrice)

\* The body of the loop of generatePnLScenarios.
ScenarioRow(baseIndexPrice, etfPrice, shares, etfCost, delta) ==
    LET newEtfValue == Times(shares * SHARES_PER_UNIT,
                             NewEtfPrice(baseIndexPrice, etfPrice, delta))
        costValue == shares * SHARES_PER_UNIT * etfCost
        etfPnL == Minus(newEtfValue, costValue)
    IN  [ indexPrice |-> baseIndexPrice + delta,
          delta |-> delta,
          etfPnL |-> etfPnL,
          totalPnL |-> etfPnL ]

\* for (delta = -range; delta <= range; delta += step), step > 0.
generatePnLScenarios(baseIndexPrice, etfPrice, shares, etfCost, range, step) ==
    [ k \in 1..(IF range < 0 THEN 0 ELSE (2 * range) \div step + 1) |->
        ScenarioRow(baseIndexPrice, etfPrice, shares, etfCost,
                    -range + (k - 1) * step) ]

\* Mutant of calculateHedgeContracts: the count rounded to the nearest
\* contract instead of floored.
calculateHedgeContracts_Rounded(hc, marginPerContract, safetyMultiplier) ==
    LET maxContracts == Round(hc, marginPerContract * safetyMultiplier)
        marginRequired == maxContracts * marginPerContract
    IN  [ maxContracts |-> maxContracts,
          marginRequired |-> marginRequired,
          availableCapital |-> hc - marginRequired ]

calculateHedgeContracts(hc, marginPerContract, safetyMultiplier) ==
    LET effectiveMargin == marginPerContract * safetyMultiplier
        maxContracts == Floor(hc, effectiveMargin)
        marginRequired == maxContracts * marginPerContract
    IN  [ maxContracts |-> maxContracts,
          marginRequired |-> marginRequired,
          availableCapital |-> hc - marginRequired ]

(***************************************************************************)
(* Calls of these functions as a state machine: a call with its arguments, *)
(* then its return.                                                        *)
(***************************************************************************)
HedgeContractsCalls ==
    { [ fn |-> "calculateHedgeContracts",
        hedgeCapital |-> hc,
        marginPerContract |-> mg,
        safetyMultiplier |-> sm ] :
        hc \in {0, 84999, 85000, 170000, 250000, 254999, 255000, 500000,
                2500000, 5000000},
        mg \in Margins, sm \in {1, 2, 3} }

EtfPnLCalls ==
    { [ fn |-> "calculateEtfPnL",
        shares |-> n,
        currentPrice |-> pr,
        costPrice |-> c ] :
        n \in {0, 4, 37}, pr \in {180, 200}, c \in {0, 150, 200} }

\* The dashboard's call (four arguments, the defaults for range and step)
\* and calls with a short range; the index price is a form field and can
\* be 0.
ScenarioCalls ==
    { [ fn |-> "generatePnLScenarios",
        baseIndexPrice |-> b,
        etfPrice |-> pr,
        etfShares |-> n,
        etfCost |-> c,
        range |-> rs[1],
        step |-> rs[2] ] :
        b \in {0, 20000, 25000}, pr \in {180, 200}, n \in {0, 4, 37},
        c \in {150, 200},
        rs \in { <<DefaultRange, DefaultStep>>, <<200, 100>>, <<150, 100>> } }

InitCalls ==
    /\ call \in HedgeContractsCalls \cup EtfPnLCalls \cup ScenarioCalls
    /\ returned = <<>>
    /\ pc = "call"
    /\ data = <<>>
    /\ params = <<>>
    /\ tzWest = FALSE
    /\ filteredData = <<>>
    /\ maValues = <<>>
    /\ i = 0
    /\ etfShares = 0
    /\ hedgeCapital = 0
    /\ hedgeContracts = 0
    /\ hedgeEntryPrice = 0
    /\ totalHedgePnL = 0
    /\ hedgeTrades = 0
    /\ rebalanceTrades = 0
    /\ lastMonth = 0
    /\ dailyResults = <<>>
    /\ tradeLogs = <<>>
    /\ maxEquity = 0
    /\ maxDrawdown = [n |-> 0, d |-> 1]
    /\ result = <<>>
    /\ thrown = ""

Returns(value) ==
    /\ returned' = <<value>>
    /\ pc' = "returned"
    /\ UNCHANGED <<data, params, tzWest, filteredData, maValues, i, etfShares,
                   hedgeCapital, hedgeContracts, hedgeEntryPrice, totalHedgePnL,
                   hedgeTrades, rebalanceTrades, lastMonth, dailyResults,
                   tradeLogs, maxEquity, maxDrawdown, result, thrown, call>>

HedgeContractsReturn ==
    /\ pc = "call"
    /\ call.fn = "calculateHedgeContracts"
    /\ Returns(calculateHedgeContracts(call.hedgeCapital, call.marginPerContract,
                                       call.safetyMultiplier))

EtfPnLReturn ==
    /\ pc = "call"
    /\ call.fn = "calculateEtfPnL"
    /\ Returns(calculateEtfPnL(call.shares, call.currentPrice, call.costPrice))

ScenariosReturn ==
    /\ pc = "call"
    /\ call.fn = "generatePnLScenarios"
    /\ Returns(generatePnLScenarios(call.baseIndexPrice, call.etfPrice,
                                    call.etfShares, call.etfCost,
                                    call.range, call.step))

NextCalls == HedgeContractsReturn \/ EtfPnLReturn \/ ScenariosReturn

SpecCalls == InitCalls /\ [][NextCalls]_vars

(***************************************************************************)
(* Degenerate inputs: runBacktest with no capital at all, next to the      *)
(* calls above (which include a base index price of 0).                    *)
(***************************************************************************)
ZeroCapitalParams ==
    { [p EXCEPT !.initialCapital = 0] : p \in ParamsOver({FullRange}, BOOLEAN) }

InitEdge == InitCalls \/ InitOver(MonthEndSeries, ZeroCapitalParams, {FALSE})

NextEdge == Next \/ NextCalls

SpecEdge == InitEdge /\ [][NextEdge]_vars

(***************************************************************************)
(* The earlier runBacktest of the same file (lines 399-526): the engine    *)
(* without the rebalance step and without the trade log.                   *)
(***************************************************************************)
\* Lines 416-432: the position and the counters before the first day.
EarlierInitial(p, firstEtfPrice) ==
    [ etfShares |->
          Floor(p.initialCapital * p.etfRatio.num,
                p.etfRatio.den * firstEtfPrice * 1000),
      hedgeCapital |->
          (p.initialCapital * (p.etfRatio.den - p.etfRatio.num)) \div p.etfRatio.den,
      hedgeContracts |-> 0,
      hedgeEntryPrice |-> 0,
      totalHedgePnL |-> 0,
      hedgeTrades |-> 0,
      maxEquity |-> p.initialCapital,
      maxDrawdown |-> [n |-> 0, d |-> 1],
      dailyResults |-> <<>> ]

\* Lines 442-471: the signal and the futures position of one day.  s is the
\* state before the day.
EarlierSignal(p, indexPrice, maValue, s) ==
    LET isBelowMA == maValue > 0 /\ indexPrice * 100 < maValue
        canShort == Floor(s.hedgeCapital, p.marginPerContract * p.safetyMultiplier)
        closePnL == s.hedgeContracts * (s.hedgeEntryPrice - indexPrice) * 50
        unchanged == [ hedgeCapital |-> s.hedgeCapital,
                       hedgeContracts |-> s.hedgeContracts,
                       hedgeEntryPrice |-> s.hedgeEntryPrice,
                       totalHedgePnL |-> s.totalHedgePnL,
                       hedgeTrades |-> s.hedgeTrades,
                       dailyHedgePnL |-> 0 ]
    IN  IF ~(maValue > 0)
        THEN unchanged @@ [signal |-> "none"]
        ELSE IF isBelowMA /\ s.hedgeContracts = 0
        THEN IF canShort > 0
             THEN [ unchanged EXCEPT !.hedgeContracts = canShort,
                                     !.hedgeEntryPrice = indexPrice,
                                     !.hedgeTrades = s.hedgeTrades + 1 ]
                      @@ [signal |-> "hedge"]
             ELSE unchanged @@ [signal |-> "none"]
        ELSE IF ~isBelowMA /\ s.hedgeContracts > 0
        THEN [ unchanged EXCEPT !.hedgeCapital = s.hedgeCapital + closePnL,
                                !.totalHedgePnL = s.totalHedgePnL + closePnL,
                                !.hedgeContracts = 0,
                                !.hedgeEntryPrice = 0,
                                !.dailyHedgePnL = closePnL ]
                 @@ [signal |-> "long"]
        ELSE IF s.hedgeContracts > 0
        THEN unchanged @@ [signal |-> "hedge"]
        ELSE unchanged @@ [signal |-> "long"]

\* Lines 434-504: one iteration of the day loop.
EarlierDay(p, obs, maValue, s) ==
    LET etfValue == s.etfShares * 1000 * obs.etfPrice
        h == EarlierSignal(p, obs.indexPrice, maValue, s)
        unrealizedHedgePnL ==
            IF h.hedgeContracts > 0
            THEN h.hedgeContracts * (h.hedgeEntryPrice - obs.indexPrice) * 50
            ELSE 0
        totalEquity == etfValue + h.hedgeCapital + unrealizedHedgePnL
        maxEq == IF totalEquity > s.maxEquity THEN totalEquity ELSE s.maxEquity
        drawdown == Frac(maxEq - totalEquity, maxEq)
    IN  [ etfShares |-> s.etfShares,
          hedgeCapital |-> h.hedgeCapital,
          hedgeContracts |-> h.hedgeContracts,
          hedgeEntryPrice |-> h.hedgeEntryPrice,
          totalHedgePnL |-> h.totalHedgePnL,
          hedgeTrades |-> h.hedgeTrades,
          maxEquity |-> maxEq,
          maxDrawdown |-> IF FracGT(drawdown, s.maxDrawdown)
                          THEN drawdown ELSE s.maxDrawdown,
          dailyResults |->
              Append(s.dailyResults,
                     [ date |-> obs.date,
                       indexPrice |-> obs.indexPrice,
                       etfPrice |-> obs.etfPrice,
                       maValue |-> maValue,
                       etfShares |-> s.etfShares,
                       etfValue |-> etfValue,
                       hedgeCapital |-> h.hedgeCapital,
                       hedgeContracts |-> h.hedgeContracts,
                       hedgePnL |-> h.dailyHedgePnL,
                       totalEquity |-> totalEquity,
                       signal |-> h.signal ]) ]

\* Lines 434-504: the loop from day k on.
RECURSIVE EarlierLoop(_, _, _, _, _)
EarlierLoop(p, fd, ma, k, s) ==
    IF k > Len(fd)
    THEN s
    ELSE EarlierLoop(p, fd, ma, k + 1, EarlierDay(p, fd[k], ma[k], s))

\* Lines 506-525: the summary.
EarlierSummary(p, s) ==
    LET finalEquity == s.dailyResults[Len(s.dailyResults)].totalEquity
        totalReturn == finalEquity - p.initialCapital
    IN  [ startDate |-> p.startDate,
          endDate |-> p.endDate,
          initialCapital |-> p.initialCapital,
          finalEquity |-> finalEquity,
          totalReturn |-> totalReturn,
          totalReturnPercent |-> Frac(totalReturn * 100, p.initialCapital),
          maxDrawdown |-> Frac(s.maxDrawdown.n * 100, s.maxDrawdown.d),
          totalHedgePnL |-> s.totalHedgePnL,
          hedgeTrades |-> s.hedgeTrades ]

\* Lines 399-526: what a call returns, or the message it throws.
EarlierRunBacktest(d, p) ==
    LET fd == SelectSeq(d, LAMBDA o : DateLE(p.startDate, o.date)
                                          /\ DateLE(o.date, p.endDate))
        ma == calculateMA([k \in 1..Len(fd) |-> fd[k].indexPrice], p.maPeriod)
        s == EarlierLoop(p, fd, ma, 1, EarlierInitial(p, fd[1].etfPrice))
    IN  IF fd = <<>>
        THEN [thrown |-> "No data in selected date range"]
        ELSE [dailyResults |-> s.dailyResults, summary |-> EarlierSummary(p, s)]

(***************************************************************************)
(* Vocabulary of the properties, stated on the inputs and the outputs      *)
(* without the engine's own operators.                                     *)
(***************************************************************************)
\* "YYYY-MM-DD" strings order as the numbers YYYYMMDD.
DateKey(date) == date.y * 10000 + date.m * 100 + date.d

ObsInRange(o) ==
    /\ DateKey(params.startDate) <= DateKey(o.date)
    /\ DateKey(o.date) <= DateKey(params.endDate)

NoneInRange == \A k \in 1..Len(data) : ~ObsInRange(data[k])

\* The in-range observations of the input, in input order.
RECURSIVE Kept(_)
Kept(d) ==
    IF d = <<>> THEN <<>>
    ELSE IF ObsInRange(Head(d)) THEN <<Head(d)>> \o Kept(Tail(d))
    ELSE Kept(Tail(d))

\* The trade log entries pushed by the step being taken.
NewLogs == SubSeq(tradeLogs', Len(tradeLogs) + 1, Len(tradeLogs'))

CountType(logs, t) == Cardinality({k \in 1..Len(logs) : logs[k].type = t})

\* A step of the day loop.
DayStep == pc = "loop" /\ i' = i + 1

(***************************************************************************)
(* C1.  runBacktest throws, and hands back no result (no daily results, no *)
(* trade log, no summary), exactly when no observation of the input lies   *)
(* in [startDate, endDate], which includes startDate > endDate; with an    *)
(* observation in range it returns a complete result.                      *)
(***************************************************************************)
C1_EmptyRangeFails ==
    /\ pc = "failed" =>
          /\ NoneInRange
          /\ thrown # ""
          /\ result = <<>> /\ dailyResults = <<>> /\ tradeLogs = <<>>
    /\ pc \in {"loop", "done"} => ~NoneInRange /\ thrown = ""
    /\ pc = "done" =>
          /\ Len(result) = 1
          /\ Len(result[1].dailyResults) >= 1
          /\ Len(result[1].tradeLogs) >= 1
          /\ result[1].summary.finalEquity =
                 result[1].dailyResults[Len(result[1].dailyResults)].totalEquity
    /\ pc # "done" => result = <<>>
    /\ DateKey(params.startDate) > DateKey(params.endDate) => pc \in {"start", "failed"}

\* A run over a non-empty series and a well-formed range has thrown.
C1_Witness ==
    /\ pc = "failed"
    /\ Len(data) > 0
    /\ DateKey(params.startDate) <= DateKey(params.endDate)

(***************************************************************************)
(* C2.  Every emitted DailyResult has totalEquity = etfValue + hedgeCapital *)
(* + unrealizedHedgePnL, with etfValue = etfShares*1000*etfPrice and        *)
(* unrealizedHedgePnL = hedgeContracts*(hedgeEntryPrice - indexPrice)*50    *)
(* when a hedge is open at the end of the day and 0 otherwise.  Stated of   *)
(* the result just emitted, hence of every result of the run.               *)
(***************************************************************************)
C2_EquityIdentity ==
    (pc = "loop" /\ i > 0) =>
        LET dr == dailyResults[i]
            unrealized == IF dr.hedgeContracts > 0
                          THEN dr.hedgeContracts * (hedgeEntryPrice - dr.indexPrice) * 50
                          ELSE 0
        IN  /\ Len(dailyResults) = i
            /\ dr.etfValue = dr.etfShares * 1000 * dr.etfPrice
            /\ dr.hedgeCapital = hedgeCapital
            /\ dr.hedgeContracts = hedgeContracts
            /\ dr.totalEquity = dr.etfValue + dr.hedgeCapital + unrealized

\* A hedge held through an index move, on a day with no trade event.
C2_Witness ==
    /\ pc = "loop" /\ i > 1
    /\ dailyResults[i].hedgeContracts > 0
    /\ dailyResults[i - 1].hedgeContracts > 0
    /\ hedgeEntryPrice # dailyResults[i].indexPrice

(***************************************************************************)
(* C3.  Across the days of a run hedgeContracts changes only from 0 to a   *)
(* positive count, with a hedge_open entry, or from a positive count to 0, *)
(* with a hedge_close entry; it never goes from one positive count to      *)
(* another, hedgeEntryPrice does not change while the position is open,    *)
(* and the hedge_open and hedge_close entries of the trade log alternate,  *)
(* starting with hedge_open.                                               *)
(***************************************************************************)
\* The hedge entries of the trade log, in order.
HedgeLogs == SelectSeq(tradeLogs, LAMBDA e : e.type \in {"hedge_open", "hedge_close"})

HedgeLogsAlternate ==
    \A k \in 1..Len(HedgeLogs) :
        HedgeLogs[k].type = IF k % 2 = 1 THEN "hedge_open" ELSE "hedge_close"

C3_Step ==
    /\ hedgeContracts >= 0 /\ hedgeContracts' >= 0
    /\ (hedgeContracts > 0 /\ hedgeContracts' > 0) =>
          /\ hedgeContracts' = hedgeContracts
          /\ hedgeEntryPrice' = hedgeEntryPrice
          /\ CountType(NewLogs, "hedge_open") = 0
          /\ CountType(NewLogs, "hedge_close") = 0
    /\ (hedgeContracts = 0 /\ hedgeContracts' > 0) =>
          /\ CountType(NewLogs, "hedge_open") = 1
          /\ CountType(NewLogs, "hedge_close") = 0
    /\ (hedgeContracts > 0 /\ hedgeContracts' = 0) =>
          /\ CountType(NewLogs, "hedge_close") = 1
          /\ CountType(NewLogs, "hedge_open") = 0
    /\ (hedgeContracts = 0 /\ hedgeContracts' = 0) =>
          /\ CountType(NewLogs, "hedge_open") = 0
          /\ CountType(NewLogs, "hedge_close") = 0

C3_OnePositionAtATime == [][C3_Step]_vars /\ []HedgeLogsAlternate

\* A hedge was opened, closed, and opened again.
C3_Witness == Len(HedgeLogs) >= 3 /\ hedgeContracts > 0

(***************************************************************************)
(* C4.  On a day of the run a hedge is opened iff the MA is defined for    *)
(* the day, indexPrice < MA, no hedge is open and                          *)
(* floor(hedgeCapital / (marginPerContract*safetyMultiplier)) > 0.  It     *)
(* opens with exactly that many contracts at that day's indexPrice, logs   *)
(* exactly one hedge_open entry and the day's signal is 'hedge'.  With a   *)
(* floor of 0 or less nothing opens and nothing is logged; every later     *)
(* below-MA day with no open hedge is tested the same way.                 *)
(***************************************************************************)
C4_Step ==
    DayStep =>
        LET obs == filteredData[i + 1]
            dr == dailyResults'[i + 1]
            \* the reserve the test sees: no close can change it on a day
            \* that starts without a hedge
            capacity == hedgeCapital' \div (params.marginPerContract * params.safetyMultiplier)
            opens == /\ i >= params.maPeriod - 1
                     /\ obs.indexPrice * 100 < dr.maValue
                     /\ hedgeContracts = 0
                     /\ capacity > 0
        IN  /\ opens <=> (hedgeContracts = 0 /\ hedgeContracts' > 0)
            /\ opens <=> CountType(NewLogs, "hedge_open") = 1
            /\ CountType(NewLogs, "hedge_open") <= 1
            /\ opens =>
                  /\ hedgeContracts' = capacity
                  /\ hedgeEntryPrice' = obs.indexPrice
                  /\ dr.hedgeContracts = capacity
                  /\ dr.signal = "hedge"
                  /\ hedgeTrades' = hedgeTrades + 1
                  /\ \E k \in 1..Len(NewLogs) :
                        /\ NewLogs[k].type = "hedge_open"
                        /\ NewLogs[k].contracts = capacity
                        /\ NewLogs[k].price = obs.indexPrice
                        /\ NewLogs[k].date = obs.date
            /\ ~opens => hedgeTrades' = hedgeTrades

C4_HedgeOpenRule == [][C4_Step]_vars

\* A hedge has just been opened.
C4_Witness ==
    /\ pc = "loop" /\ i > 0
    /\ dailyResults[i].signal = "hedge"
    /\ tradeLogs[Len(tradeLogs)].type = "hedge_open"
    /\ tradeLogs[Len(tradeLogs)].date = dailyResults[i].date
    /\ hedgeContracts >= 2

(***************************************************************************)
(* C5.  On a day where the MA is defined, indexPrice >= MA and a hedge is  *)
(* open, the hedge is closed: realizedPnL = hedgeContracts *               *)
(* (hedgeEntryPrice - indexPrice) * 50 is added to hedgeCapital and to the *)
(* running total hedge P&L, exactly one hedge_close entry carrying it is   *)
(* logged, hedgeContracts becomes 0 and the signal is 'long'.  The         *)
(* DailyResult's hedgePnL is that amount on a close day and 0 on any other *)
(* day.                                                                    *)
(***************************************************************************)
C5_Step ==
    DayStep =>
        LET obs == filteredData[i + 1]
            dr == dailyResults'[i + 1]
            realizedPnL == hedgeContracts * (hedgeEntryPrice - obs.indexPrice) * 50
            closes == /\ i >= params.maPeriod - 1
                      /\ obs.indexPrice * 100 >= dr.maValue
                      /\ hedgeContracts > 0
        IN  /\ closes =>
                  /\ hedgeCapital' = hedgeCapital + realizedPnL
                  /\ totalHedgePnL' = totalHedgePnL + realizedPnL
                  /\ hedgeContracts' = 0
                  /\ dr.hedgeContracts = 0
                  /\ dr.signal = "long"
                  /\ dr.hedgePnL = realizedPnL
                  /\ CountType(NewLogs, "hedge_close") = 1
                  /\ \E k \in 1..Len(NewLogs) :
                        /\ NewLogs[k].type = "hedge_close"
                        /\ NewLogs[k].pnl = realizedPnL
                        /\ NewLogs[k].contracts = hedgeContracts
            /\ ~closes =>
                  /\ dr.hedgePnL = 0
                  /\ CountType(NewLogs, "hedge_close") = 0
                  /\ totalHedgePnL' = totalHedgePnL

C5_HedgeCloseRule == [][C5_Step]_vars

\* The close of the 3-day scenario: a short entered at 21000 is closed at
\* 22500, realizing contracts * (21000 - 22500) * 50, a loss.
C5_Witness ==
    /\ Len(tradeLogs) >= 2
    /\ tradeLogs[Len(tradeLogs) - 1].type = "hedge_open"
    /\ tradeLogs[Len(tradeLogs) - 1].price = 21000
    /\ tradeLogs[Len(tradeLogs)].type = "hedge_close"
    /\ tradeLogs[Len(tradeLogs)].price = 22500
    /\ tradeLogs[Len(tradeLogs)].pnl = tradeLogs[Len(tradeLogs)].contracts * (21000 - 22500) * 50
    /\ tradeLogs[Len(tradeLogs)].pnl < 0
    /\ hedgeContracts = 0

(***************************************************************************)
(* C6.  hedgeCapital is never negative in an emitted DailyResult or in a   *)
(* trade log snapshot.  The engine has no such guard: a hedge closed at a  *)
(* loss larger than the reserve leaves the reserve negative.               *)
(***************************************************************************)
C6_ReserveNeverNegative ==
    /\ \A k \in 1..Len(dailyResults) : dailyResults[k].hedgeCapital >= 0
    /\ \A k \in 1..Len(tradeLogs) : tradeLogs[k].hedgeCapitalAfter >= 0

(***************************************************************************)
(* C7.  etfShares is a whole number of lots >= 0 in every emitted          *)
(* DailyResult and trade log snapshot: a rebalance sell never sells more   *)
(* lots than are held.  A rebalance on a negative total equity (reserve    *)
(* below minus the ETF value, see C6) sells more than is held.             *)
(***************************************************************************)
C7_SharesNeverNegative ==
    /\ \A k \in 1..Len(dailyResults) : dailyResults[k].etfShares >= 0
    /\ \A k \in 1..Len(tradeLogs) : tradeLogs[k].etfSharesAfter >= 0

(***************************************************************************)
(* C8.  The engine starts with floor(initialCapital*etfRatio /             *)
(* (firstEtfPrice*1000)) lots and a reserve of                             *)
(* initialCapital*(1 - etfRatio), firstEtfPrice being the ETF price of the *)
(* first in-range observation, and the run logs exactly one 'buy' entry:   *)
(* the first entry, dated that first in-range day, with that lot count.    *)
(***************************************************************************)
C8_InitialPosition ==
    pc \in {"loop", "done"} =>
        LET first == Kept(data)[1]
            num == params.etfRatio.num
            den == params.etfRatio.den
            lots == (params.initialCapital * num) \div (den * first.etfPrice * 1000)
            buy == tradeLogs[1]
        IN  /\ buy.type = "buy"
            /\ buy.date = first.date
            /\ buy.price = first.etfPrice
            /\ buy.shares = lots
            /\ buy.etfSharesAfter = lots
            /\ buy.hedgeCapitalAfter * den = params.initialCapital * (den - num)
            /\ CountType(tradeLogs, "buy") = 1
            /\ (pc = "loop" /\ i = 0) =>
                  /\ etfShares = lots
                  /\ hedgeCapital * den = params.initialCapital * (den - num)
            /\ pc = "done" => CountType(result[1].tradeLogs, "buy") = 1

\* A finished run with later entries in the log, whose first in-range
\* observation is not the first observation of the input.
C8_Witness ==
    /\ pc = "done"
    /\ Len(tradeLogs) >= 3
    /\ ~ObsInRange(data[1])
    /\ tradeLogs[1].shares > 0

(***************************************************************************)
(* C9.  The equity of day 0 is initialCapital: the totalEquityAfter of the *)
(* initial buy entry and the totalEquity of the first DailyResult both     *)
(* equal initialCapital.  The buy entry says so; the first DailyResult     *)
(* does not: the part of the ETF allocation that buys no whole lot is in   *)
(* neither the ETF value nor the reserve.                                  *)
(***************************************************************************)
C9_DayZeroEquity ==
    /\ Len(tradeLogs) >= 1 => tradeLogs[1].totalEquityAfter = params.initialCapital
    /\ Len(dailyResults) >= 1 => dailyResults[1].totalEquity = params.initialCapital

(***************************************************************************)
(* C10.  A successful run emits exactly one DailyResult per in-range       *)
(* observation, in input order, carrying the observation's date and        *)
(* prices, whether or not an event fires on the day.                       *)
(***************************************************************************)
Carries(dr, o) ==
    dr.date = o.date /\ dr.indexPrice = o.indexPrice /\ dr.etfPrice = o.etfPrice

C10_OneResultPerObservation ==
    /\ pc = "loop" =>
          /\ Len(dailyResults) = i
          /\ i <= Len(Kept(data))
          /\ \A k \in 1..i : Carries(dailyResults[k], Kept(data)[k])
    /\ pc = "done" =>
          /\ Len(result[1].dailyResults) = Len(Kept(data))
          /\ \A k \in 1..Len(Kept(data)) : Carries(result[1].dailyResults[k], Kept(data)[k])

\* A finished run of three days or more over a trimmed input, with a day
\* that logged an event and a day that logged none.
C10_Witness ==
    /\ pc = "done"
    /\ Len(result[1].dailyResults) >= 3
    /\ Len(data) > Len(result[1].dailyResults)
    /\ \E k \in 2..Len(dailyResults) :
          \E e \in 1..Len(tradeLogs) : tradeLogs[e].date = dailyResults[k].date
    /\ \E k \in 2..Len(dailyResults) :
          \A e \in 1..Len(tradeLogs) : tradeLogs[e].date # dailyResults[k].date

(***************************************************************************)
(* C11.  For maPeriod >= 2 the first maPeriod-1 DailyResults, counted from *)
(* the first in-range day, have signal 'none' and no hedge contracts, and  *)
(* no hedge_open or hedge_close entry is dated one of those days.          *)
(***************************************************************************)
HedgeEntryOn(logs, date) ==
    \E e \in 1..Len(logs) :
        logs[e].date = date /\ logs[e].type \in {"hedge_open", "hedge_close"}

QuietWarmUp(results, logs) ==
    \A k \in 1..Len(results) :
        k <= params.maPeriod - 1 =>
            /\ results[k].date = Kept(data)[k].date
            /\ results[k].signal = "none"
            /\ results[k].hedgeContracts = 0
            /\ ~HedgeEntryOn(logs, results[k].date)

C11_WarmUpIsQuiet ==
    params.maPeriod >= 2 =>
        /\ QuietWarmUp(dailyResults, tradeLogs)
        /\ pc = "done" => QuietWarmUp(result[1].dailyResults, result[1].tradeLogs)

\* A trimmed input with a three-day average: the index falls inside the
\* warm-up and the hedge opens on the first day that has an average.
C11_Witness ==
    /\ params.maPeriod = 3
    /\ Len(dailyResults) >= 3
    /\ ~ObsInRange(data[1])
    /\ dailyResults[2].indexPrice < dailyResults[1].indexPrice
    /\ dailyResults[2].signal = "none"
    /\ dailyResults[3].signal = "hedge"
    /\ HedgeEntryOn(tradeLogs, dailyResults[3].date)

(***************************************************************************)
(* The rebalance rule in the words of the specification, on the state a    *)
(* day starts in.                                                          *)
(***************************************************************************)
\* The month the runtime reports for a date (1..12).
MonthSeen(date) ==
    IF tzWest /\ date.d = 1
    THEN (IF date.m = 1 THEN 12 ELSE date.m - 1)
    ELSE date.m

Today == Kept(data)[i + 1]

Yesterday == Kept(data)[i]

\* enableRebalance, not the first day, month changed, no hedge open.
Eligible ==
    /\ params.enableRebalance
    /\ i > 0
    /\ MonthSeen(Today.date) # MonthSeen(Yesterday.date)
    /\ hedgeContracts = 0

\* total = etfValue + hedgeCapital at the day's ETF price.
TotalBefore == etfShares * 1000 * Today.etfPrice + hedgeCapital

\* diff = total * etfRatio - etfValue, times etfRatio.den.
DiffTimesDen ==
    TotalBefore * params.etfRatio.num
        - etfShares * 1000 * Today.etfPrice * params.etfRatio.den

\* |diff| > 0.01 * total
AboveThreshold ==
    (IF DiffTimesDen < 0 THEN -DiffTimesDen ELSE DiffTimesDen)
        > (TotalBefore * params.etfRatio.den) \div 100

\* l = round(diff / (etfPrice * 1000)): l is the integer within a half of
\* the quotient, the upper one at a tie.
RoundsTo(l) ==
    LET q == params.etfRatio.den * Today.etfPrice * 1000
    IN  /\ 2 * DiffTimesDen - q < 2 * l * q
        /\ 2 * l * q <= 2 * DiffTimesDen + q

TradeExecutes == Eligible /\ AboveThreshold /\ ~RoundsTo(0)

(***************************************************************************)
(* C12 (as stated).  No 'rebalance' entry is dated within the first        *)
(* maPeriod-1 days of the filtered range.  The rebalance step does not     *)
(* look at the moving average, so this does not hold.                      *)
(***************************************************************************)
RebalanceOn(logs, date) ==
    \E e \in 1..Len(logs) : logs[e].date = date /\ logs[e].type = "rebalance"

C12_NoRebalanceInWarmUp ==
    \A k \in 1..Len(dailyResults) :
        k <= params.maPeriod - 1 => ~RebalanceOn(tradeLogs, dailyResults[k].date)

(***************************************************************************)
(* C12 (amended).  The MA warm-up suspends the hedge logic only: on a day  *)
(* within the first maPeriod-1 days of the filtered range a 'rebalance'    *)
(* entry is logged exactly when enableRebalance is true, the day is not    *)
(* the first, its month differs from the previous in-range entry's, no     *)
(* hedge is open, the deviation exceeds the threshold and rounds to a      *)
(* non-zero number of lots.                                                *)
(***************************************************************************)
C12_Step ==
    (DayStep /\ i + 1 <= params.maPeriod - 1) =>
        CountType(NewLogs, "rebalance") = (IF TradeExecutes THEN 1 ELSE 0)

C12_RebalanceRunsInWarmUp == [][C12_Step]_vars

\* A run with a three-day average that rebalanced on its second day.
C12_Witness ==
    /\ params.maPeriod = 3
    /\ Len(dailyResults) >= 2
    /\ dailyResults[2].signal = "none"
    /\ RebalanceOn(tradeLogs, dailyResults[2].date)

(***************************************************************************)
(* C13.  A 'rebalance' entry is never dated the first in-range day, never  *)
(* logged when enableRebalance is false, and never dated a day in the same *)
(* calendar month as the previous in-range entry.  The engine reads the    *)
(* month with new Date(date).getMonth(): in a zone behind UTC the first of *)
(* a month reads as the month before, the change of month is seen a day    *)
(* late, and the day after the first rebalances within the month.          *)
(***************************************************************************)
CalendarMonth(date) == <<date.y, date.m>>

AtMonthChange(date) ==
    \E k \in 2..Len(Kept(data)) :
        /\ Kept(data)[k].date = date
        /\ CalendarMonth(Kept(data)[k].date) # CalendarMonth(Kept(data)[k - 1].date)

C13_RebalanceOnlyAtMonthChange ==
    \A e \in 1..Len(tradeLogs) :
        tradeLogs[e].type = "rebalance" =>
            /\ params.enableRebalance
            /\ tradeLogs[e].date # Kept(data)[1].date
            /\ AtMonthChange(tradeLogs[e].date)

(***************************************************************************)
(* C14.  Rebalancing never happens while a hedge is open: a day that       *)
(* starts with hedgeContracts > 0 logs no rebalance entry and leaves       *)
(* etfShares and the rebalance count as they were, so the DailyResults     *)
(* from the day a hedge opens through the day it closes show the same      *)
(* etfShares.                                                              *)
(***************************************************************************)
C14_Step ==
    (DayStep /\ hedgeContracts > 0) =>
        /\ CountType(NewLogs, "rebalance") = 0
        /\ etfShares' = etfShares
        /\ rebalanceTrades' = rebalanceTrades
        /\ dailyResults'[i + 1].etfShares = etfShares

SharesHeldThroughHedge ==
    \A k \in 1..(Len(dailyResults) - 1) :
        dailyResults[k].hedgeContracts > 0 =>
            dailyResults[k + 1].etfShares = dailyResults[k].etfShares

C14_NoRebalanceMidHedge == [][C14_Step]_vars /\ []SharesHeldThroughHedge

\* A day at a month change, with rebalancing enabled and the ETF a lot or
\* more, and more than 1% of the total, off its target, that started with a
\* hedge open.
C14_Witness ==
    /\ params.enableRebalance
    /\ \E k \in 2..Len(dailyResults) :
          LET before == dailyResults[k - 1]
              etf == before.etfShares * 1000 * dailyResults[k].etfPrice
              off == (etf + before.hedgeCapital) * params.etfRatio.num
                        - etf * params.etfRatio.den
              oneLot == params.etfRatio.den * dailyResults[k].etfPrice * 1000
              onePercent == ((etf + before.hedgeCapital) * params.etfRatio.den) \div 100
          IN  /\ before.hedgeContracts > 0
              /\ MonthSeen(dailyResults[k].date) # MonthSeen(before.date)
              /\ (off >= oneLot \/ -off >= oneLot)
              /\ (off > onePercent \/ -off > onePercent)
              /\ dailyResults[k].etfShares = before.etfShares

(***************************************************************************)
(* C15.  On a day eligible for rebalancing, with total = etfValue +        *)
(* hedgeCapital and diff = total*etfRatio - etfValue, a trade executes     *)
(* exactly when |diff| > 0.01*total and lots = round(diff/(etfPrice*1000)) *)
(* is not 0.  Then etfShares moves by lots, hedgeCapital by                *)
(* -lots*1000*etfPrice, one 'rebalance' entry is logged and                *)
(* rebalanceTrades goes up by 1; otherwise nothing is traded or logged,    *)
(* also when the diff is above the threshold and rounds to 0 lots.         *)
(***************************************************************************)
C15_Step ==
    (DayStep /\ Eligible) =>
        IF AboveThreshold /\ ~RoundsTo(0)
        THEN LET lots == etfShares' - etfShares
             IN  /\ RoundsTo(lots)
                 /\ hedgeCapital' = hedgeCapital - lots * 1000 * Today.etfPrice
                 /\ CountType(NewLogs, "rebalance") = 1
                 /\ NewLogs[1].type = "rebalance"
                 /\ NewLogs[1].shares = lots
                 /\ NewLogs[1].date = Today.date
                 /\ rebalanceTrades' = rebalanceTrades + 1
        ELSE /\ etfShares' = etfShares
             /\ hedgeCapital' = hedgeCapital
             /\ CountType(NewLogs, "rebalance") = 0
             /\ rebalanceTrades' = rebalanceTrades

C15_RebalanceTradeRule == [][C15_Step]_vars

\* A day that sold lots at a month change: the
\* reserve rose by the amount sold.
C15_Witness ==
    /\ Len(dailyResults) >= 2
    /\ LET today == dailyResults[Len(dailyResults)]
           before == dailyResults[Len(dailyResults) - 1]
       IN  /\ today.etfShares < before.etfShares
           /\ today.hedgeCapital
                 = before.hedgeCapital
                     + (before.etfShares - today.etfShares) * 1000 * today.etfPrice
           /\ RebalanceOn(tradeLogs, today.date)
           /\ rebalanceTrades = 1

(***************************************************************************)
(* C16.  The running maximum drawdown never decreases from one day to the  *)
(* next, and the summary's maxDrawdown is 100 times the largest over the   *)
(* days i of (peak[i] - totalEquity[i]) / peak[i], where peak[i] is the    *)
(* largest of initialCapital and totalEquity[0..i].                        *)
(***************************************************************************)
RECURSIVE PeakAt(_, _)
PeakAt(results, k) ==
    IF k = 0
    THEN params.initialCapital
    ELSE LET before == PeakAt(results, k - 1)
         IN  IF results[k].totalEquity > before THEN results[k].totalEquity ELSE before

\* (peak[k] - totalEquity[k]) / peak[k], in lowest terms.
DrawdownAt(results, k) ==
    Frac(PeakAt(results, k) - results[k].totalEquity, PeakAt(results, k))

RECURSIVE LargestDrawdown(_, _)
LargestDrawdown(results, k) ==
    IF k = 0
    THEN [n |-> 0, d |-> 1]
    ELSE LET before == LargestDrawdown(results, k - 1)
             today == DrawdownAt(results, k)
         IN  IF today.n * before.d > before.n * today.d THEN today ELSE before

DrawdownSummarized ==
    /\ pc = "loop" => maxDrawdown = LargestDrawdown(dailyResults, Len(dailyResults))
    /\ pc = "done" =>
          LET largest == LargestDrawdown(result[1].dailyResults,
                                         Len(result[1].dailyResults))
          IN  result[1].summary.maxDrawdown = Frac(100 * largest.n, largest.d)

C16_Step == maxDrawdown'.n * maxDrawdown.d >= maxDrawdown.n * maxDrawdown'.d

C16_MaxDrawdown == [][C16_Step]_vars /\ []DrawdownSummarized

\* A finished run whose equity rose above the initial capital, fell back
\* and recovered: the largest drawdown is that of a day in the middle, not
\* the first day's and not the last day's.
C16_Witness ==
    /\ pc = "done"
    /\ Len(dailyResults) >= 4
    /\ PeakAt(dailyResults, 2) > params.initialCapital
    /\ DrawdownAt(dailyResults, 1).n > 0
    /\ DrawdownAt(dailyResults, 3) = maxDrawdown
    /\ DrawdownAt(dailyResults, 3) # DrawdownAt(dailyResults, 1)
    /\ DrawdownAt(dailyResults, 4).n = 0
    /\ result[1].summary.maxDrawdown.n > 0

(***************************************************************************)
(* C17.  Hedge P&L reaches the reserve only when it is realized: on a day  *)
(* with no hedge_close and no rebalance trade hedgeCapital is what it was  *)
(* the day before.  Opening a hedge deducts no margin, and holding one     *)
(* through an index move leaves the reserve alone: the unrealized P&L      *)
(* shows in totalEquity only.                                              *)
(***************************************************************************)
C17_Step ==
    (/\ DayStep
     /\ CountType(NewLogs, "hedge_close") = 0
     /\ CountType(NewLogs, "rebalance") = 0) =>
        LET today == dailyResults'[i + 1]
        IN  /\ hedgeCapital' = hedgeCapital
            /\ today.hedgeCapital = hedgeCapital
            /\ \A e \in 1..Len(NewLogs) : NewLogs[e].hedgeCapitalAfter = hedgeCapital
            /\ today.totalEquity
                  = today.etfValue + hedgeCapital
                      + today.hedgeContracts * (hedgeEntryPrice' - today.indexPrice) * 50

C17_ReserveMovesOnRealization == [][C17_Step]_vars

\* A hedge opened one day and held the next at another index price: the
\* reserve of both days is the one of the day before the hedge, while the
\* equity carries a non-zero unrealized P&L.
C17_Witness ==
    /\ Len(dailyResults) >= 3
    /\ LET n == Len(dailyResults)
       IN  /\ dailyResults[n - 2].hedgeContracts = 0
           /\ dailyResults[n - 1].hedgeContracts > 0
           /\ dailyResults[n].hedgeContracts = dailyResults[n - 1].hedgeContracts
           /\ dailyResults[n].indexPrice # dailyResults[n - 1].indexPrice
           /\ dailyResults[n].hedgeCapital = dailyResults[n - 2].hedgeCapital
           /\ dailyResults[n - 1].hedgeCapital = dailyResults[n - 2].hedgeCapital
           /\ dailyResults[n].totalEquity
                 # dailyResults[n].etfValue + dailyResults[n].hedgeCapital

(***************************************************************************)
(* C19.  The summary is a reduction of the trajectory: finalEquity is the  *)
(* totalEquity of the last DailyResult, totalReturn is finalEquity minus   *)
(* initialCapital, hedgeTrades is the number of hedge_open entries,        *)
(* rebalanceTrades the number of rebalance entries, and totalHedgePnL the  *)
(* sum of the pnl of the hedge_close entries, which is the sum of hedgePnL *)
(* over the DailyResults: the unrealized P&L of a hedge still open on the  *)
(* last day is not in it.                                                  *)
(***************************************************************************)
RECURSIVE RealizedInLogs(_)
RealizedInLogs(logs) ==
    IF logs = <<>>
    THEN 0
    ELSE (IF Head(logs).type = "hedge_close" THEN Head(logs).pnl ELSE 0)
             + RealizedInLogs(Tail(logs))

RECURSIVE RealizedInResults(_)
RealizedInResults(results) ==
    IF results = <<>>
    THEN 0
    ELSE Head(results).hedgePnL + RealizedInResults(Tail(results))

C19_SummaryIsReduction ==
    pc = "done" =>
        LET results == result[1].dailyResults
            logs == result[1].tradeLogs
            summary == result[1].summary
        IN  /\ summary.finalEquity = results[Len(results)].totalEquity
            /\ summary.totalReturn = summary.finalEquity - params.initialCapital
            /\ summary.initialCapital = params.initialCapital
            /\ summary.hedgeTrades = CountType(logs, "hedge_open")
            /\ summary.rebalanceTrades = CountType(logs, "rebalance")
            /\ summary.totalHedgePnL = RealizedInLogs(logs)
            /\ summary.totalHedgePnL = RealizedInResults(results)

\* A finished run that rebalanced, then opened a hedge and still holds it
\* on the last day at a non-zero unrealized P&L.
C19_Witness ==
    /\ pc = "done"
    /\ LET results == result[1].dailyResults
           last == results[Len(results)]
       IN  /\ last.hedgeContracts > 0
           /\ last.totalEquity # last.etfValue + last.hedgeCapital
           /\ result[1].summary.totalHedgePnL = 0
           /\ result[1].summary.hedgeTrades = 1
           /\ result[1].summary.rebalanceTrades >= 1

(***************************************************************************)
(* C20.  The moving-average series is as long as the filtered index price  *)
(* series; its entries of index i < period-1 are the 'undefined' value 0   *)
(* and its entries of index i >= period-1 are the arithmetic mean of       *)
(* prices[i-period+1..i] rounded to two decimals, the prices being those   *)
(* of the filtered range only: observations before startDate are in no     *)
(* average.  Each DailyResult carries the entry of its day.                *)
(***************************************************************************)
\* Sum of the index prices of the in-range observations lo..hi (1-based).
RECURSIVE IndexSum(_, _)
IndexSum(lo, hi) ==
    IF lo > hi THEN 0 ELSE Kept(data)[hi].indexPrice + IndexSum(lo, hi - 1)

\* v hundredths is sum/n rounded to two decimals (a tie goes up).
IsRoundedMean(v, sum, n) ==
    /\ 2 * 100 * sum - n < 2 * v * n
    /\ 2 * v * n <= 2 * 100 * sum + n

C20_MovingAverage ==
    pc \in {"loop", "done"} =>
        /\ Len(maValues) = Len(Kept(data))
        /\ \A k \in 1..Len(maValues) :
              IF k < params.maPeriod
              THEN maValues[k] = 0
              ELSE IsRoundedMean(maValues[k],
                                 IndexSum(k - params.maPeriod + 1, k),
                                 params.maPeriod)
        /\ \A k \in 1..Len(dailyResults) : dailyResults[k].maValue = maValues[k]

\* A three-day average over a trimmed input: the observation cut off has
\* another index price than the first one kept, and the one average of the
\* range has no exact two-decimal value and is rounded up.
C20_Witness ==
    /\ pc = "done"
    /\ params.maPeriod = 3
    /\ Len(maValues) = 3
    /\ Len(data) = 4
    /\ ~ObsInRange(data[1])
    /\ data[1].indexPrice # data[2].indexPrice
    /\ maValues[1] = 0 /\ maValues[2] = 0
    /\ 3 * maValues[3] > 100 * IndexSum(1, 3)
    /\ dailyResults[3].maValue = maValues[3]

(***************************************************************************)
(* C21.  calculateHedgeContracts returns maxContracts = floor(hedgeCapital *)
(* / (marginPerContract*safetyMultiplier)); for hedgeCapital >= 0,         *)
(* marginPerContract > 0 and safetyMultiplier >= 1 the margin it reports   *)
(* (maxContracts*marginPerContract) is at most hedgeCapital /              *)
(* safetyMultiplier, so availableCapital = hedgeCapital - marginRequired   *)
(* is not negative, and maxContracts is the count the engine opens a hedge *)
(* with on the same reserve and settings.                                  *)
(***************************************************************************)
C21_HedgeContracts ==
    (pc = "returned" /\ call.fn = "calculateHedgeContracts") =>
        LET r == returned[1]
            effective == call.marginPerContract * call.safetyMultiplier
        IN  /\ r.maxContracts * effective <= call.hedgeCapital
            /\ call.hedgeCapital < (r.maxContracts + 1) * effective
            /\ r.marginRequired = r.maxContracts * call.marginPerContract
            /\ r.marginRequired * call.safetyMultiplier <= call.hedgeCapital
            /\ r.availableCapital = call.hedgeCapital - r.marginRequired
            /\ r.availableCapital >= 0
            /\ r.maxContracts
                  = CanShort([ marginPerContract |-> call.marginPerContract,
                               safetyMultiplier |-> call.safetyMultiplier ],
                             call.hedgeCapital)

\* A reserve of exactly one effective margin at multiplier 3: one contract,
\* two thirds of the reserve left.
C21_Witness ==
    /\ pc = "returned"
    /\ call.fn = "calculateHedgeContracts"
    /\ call.hedgeCapital = 255000
    /\ call.safetyMultiplier = 3
    /\ returned[1].maxContracts = 1
    /\ returned[1].availableCapital = 170000

(***************************************************************************)
(* C22.  In the table generatePnLScenarios returns, the row with delta = 0 *)
(* is the identity row: its projected ETF price is the etfPrice supplied   *)
(* and its P&L is the current unrealized ETF P&L, etfShares*1000*(etfPrice *)
(* - etfCost), the pnl calculateEtfPnL returns for the same holdings; with *)
(* the default range 1500 and step 100 the table has 31 rows with deltas   *)
(* -1500, -1400, ..., 1500 and contains that row.  With a base index price *)
(* of 0 the function divides 0 by 0 and the row is not-a-number.           *)
(***************************************************************************)
Whole(x) == [n |-> x, d |-> 1]

C22_ZeroDeltaIsIdentity ==
    (pc = "returned" /\ call.fn = "generatePnLScenarios") =>
        LET rows == returned[1]
        IN  /\ \A k \in 1..Len(rows) :
                  rows[k].delta = 0 =>
                      /\ rows[k].indexPrice = call.baseIndexPrice
                      /\ NewEtfPrice(call.baseIndexPrice, call.etfPrice, 0)
                            = Whole(call.etfPrice)
                      /\ rows[k].etfPnL
                            = Whole(call.etfShares * 1000
                                        * (call.etfPrice - call.etfCost))
                      /\ rows[k].etfPnL
                            = Whole(calculateEtfPnL(call.etfShares, call.etfPrice,
                                                    call.etfCost).pnl)
                      /\ rows[k].totalPnL = rows[k].etfPnL
            /\ (call.range = 1500 /\ call.step = 100) =>
                  /\ Len(rows) = 31
                  /\ \A k \in 1..31 : rows[k].delta = -1500 + 100 * (k - 1)
                  /\ \E k \in 1..31 : rows[k].delta = 0

(***************************************************************************)
(* C23.  Numeric edge cases are rejected with an error instead of          *)
(* producing a result: a run with initialCapital = 0 (peak equity 0 at the *)
(* drawdown division) and a scenario projection with baseIndexPrice = 0    *)
(* do not return, and no returned result holds a not-a-number or infinite  *)
(* value.  (The third case of the claim, a first ETF price of 0, is        *)
(* outside the price domain of the model.)  Neither function has such a    *)
(* guard: both return, with NaN or Infinity in the result.                 *)
(***************************************************************************)
C23_EdgeCasesRejected ==
    /\ (call.fn = "runBacktest" /\ params.initialCapital = 0) => pc # "done"
    /\ (call.fn = "generatePnLScenarios" /\ call.baseIndexPrice = 0) =>
          pc # "returned"
    /\ pc = "done" =>
          /\ IsFinite(result[1].summary.totalReturnPercent)
          /\ IsFinite(result[1].summary.maxDrawdown)
    /\ (pc = "returned" /\ call.fn = "generatePnLScenarios") =>
          \A k \in 1..Len(returned[1]) :
              IsFinite(returned[1][k].etfPnL) /\ IsFinite(returned[1][k].totalPnL)

(***************************************************************************)
(* C24.  Within a day the rebalance step runs before the hedge step: when  *)
(* a rebalance trade and a hedge open fall on the same day, the rebalance  *)
(* entry precedes the hedge_open entry in the log and the hedge is sized   *)
(* on the reserve the rebalance left, floor(hedgeCapital after rebalance / *)
(* (marginPerContract*safetyMultiplier)); a day that closes a hedge logs   *)
(* no rebalance, at a month boundary or not.                               *)
(***************************************************************************)
C24_Step ==
    DayStep =>
        /\ (CountType(NewLogs, "rebalance") > 0 /\ CountType(NewLogs, "hedge_open") > 0) =>
              LET effective == params.marginPerContract * params.safetyMultiplier
              IN  /\ Len(NewLogs) = 2
                  /\ NewLogs[1].type = "rebalance"
                  /\ NewLogs[2].type = "hedge_open"
                  /\ NewLogs[2].hedgeCapitalAfter = NewLogs[1].hedgeCapitalAfter
                  /\ NewLogs[2].etfSharesAfter = NewLogs[1].etfSharesAfter
                  /\ NewLogs[2].contracts * effective <= NewLogs[1].hedgeCapitalAfter
                  /\ NewLogs[1].hedgeCapitalAfter < (NewLogs[2].contracts + 1) * effective
                  /\ hedgeContracts' = NewLogs[2].contracts
        /\ CountType(NewLogs, "hedge_close") > 0 =>
              /\ CountType(NewLogs, "rebalance") = 0
              /\ etfShares' = etfShares

C24_RebalanceBeforeHedge == [][C24_Step]_vars

\* A day that rebalanced and then opened a hedge: the last two entries of
\* the log are of that day, and the count opened is not the one the reserve
\* of the day before would have given.
C24_Witness ==
    /\ Len(tradeLogs) >= 3
    /\ Len(dailyResults) >= 2
    /\ LET n == Len(tradeLogs)
           before == dailyResults[Len(dailyResults) - 1].hedgeCapital
           effective == params.marginPerContract * params.safetyMultiplier
       IN  /\ tradeLogs[n - 1].type = "rebalance"
           /\ tradeLogs[n].type = "hedge_open"
           /\ tradeLogs[n].date = tradeLogs[n - 1].date
           /\ tradeLogs[n].date = dailyResults[Len(dailyResults)].date
           /\ tradeLogs[n].contracts # before \div effective

(***************************************************************************)
(* C25.  The month marker advances on every day, rebalance or not, so a    *)
(* month boundary crossed while a hedge is open is lost: when a day in a   *)
(* new month starts with a hedge open, no rebalance entry is logged on it  *)
(* or on any later day of that month, not after the hedge has closed and   *)
(* not when the deviation is above the threshold; a rebalance entry is     *)
(* only ever dated a day in a new month that started without a hedge.      *)
(* Months are the ones the runtime reports for the dates.                  *)
(***************************************************************************)
NewMonthAt(k) ==
    k >= 2 /\ MonthSeen(dailyResults[k].date) # MonthSeen(dailyResults[k - 1].date)

\* Days k..j are of one month.
OneMonth(k, j) == \A m \in (k + 1)..j : ~NewMonthAt(m)

BoundaryLostUnderHedge ==
    \A k \in 2..Len(dailyResults) :
        (NewMonthAt(k) /\ dailyResults[k - 1].hedgeContracts > 0) =>
            \A j \in k..Len(dailyResults) :
                OneMonth(k, j) => ~RebalanceOn(tradeLogs, dailyResults[j].date)

RebalanceOnlyAtFreeBoundary ==
    \A k \in 1..Len(dailyResults) :
        RebalanceOn(tradeLogs, dailyResults[k].date) =>
            NewMonthAt(k) /\ dailyResults[k - 1].hedgeContracts = 0

C25_Step == DayStep => lastMonth' = MonthSeen(Today.date) - 1

C25_LostMonthBoundary ==
    /\ [][C25_Step]_vars
    /\ []BoundaryLostUnderHedge
    /\ []RebalanceOnlyAtFreeBoundary

\* A hedge carried into a new month and closed on its first day; the next
\* day, of the same month, starts without a hedge and with the ETF a lot or
\* more, and more than 1% of the total, off its target, and logs no
\* rebalance.
C25_Witness ==
    /\ params.enableRebalance
    /\ Len(dailyResults) >= 4
    /\ LET n == Len(dailyResults)
           before == dailyResults[n - 1]
           etf == before.etfShares * 1000 * dailyResults[n].etfPrice
           off == (etf + before.hedgeCapital) * params.etfRatio.num
                     - etf * params.etfRatio.den
           oneLot == params.etfRatio.den * dailyResults[n].etfPrice * 1000
           onePercent == ((etf + before.hedgeCapital) * params.etfRatio.den) \div 100
       IN  /\ NewMonthAt(n - 1)
           /\ dailyResults[n - 2].hedgeContracts > 0
           /\ before.hedgeContracts = 0
           /\ ~NewMonthAt(n)
           /\ (off >= oneLot \/ -off >= oneLot)
           /\ (off > onePercent \/ -off > onePercent)
           /\ ~RebalanceOn(tradeLogs, dailyResults[n].date)
           /\ dailyResults[n].etfShares = before.etfShares

(***************************************************************************)
(* C26.  At the end of a day an open hedge implies an index below the      *)
(* moving average: every DailyResult with hedgeContracts > 0 has           *)
(* maValue > 0 and indexPrice < maValue, every DailyResult with signal     *)
(* 'hedge' has hedgeContracts > 0 and every one with signal 'long' has     *)
(* hedgeContracts = 0; a day logs at most one hedge entry, an open or a    *)
(* close, never both.                                                      *)
(***************************************************************************)
SignalsAgree(results) ==
    \A k \in 1..Len(results) :
        /\ results[k].hedgeContracts > 0 =>
              /\ results[k].maValue > 0
              /\ results[k].indexPrice * 100 < results[k].maValue
        /\ results[k].signal = "hedge" => results[k].hedgeContracts > 0
        /\ results[k].signal = "long" => results[k].hedgeContracts = 0
        /\ results[k].signal \in {"none", "long", "hedge"}

C26_Step ==
    DayStep =>
        CountType(NewLogs, "hedge_open") + CountType(NewLogs, "hedge_close") <= 1

C26_HedgeOnlyBelowMA ==
    /\ [][C26_Step]_vars
    /\ [](SignalsAgree(dailyResults)
            /\ (pc = "done" => SignalsAgree(result[1].dailyResults)))

\* A hedge opened, held a day at another index price, and closed on a day
\* whose index equals the moving average: signals 'hedge', 'hedge', 'long'.
C26_Witness ==
    /\ Len(dailyResults) >= 4
    /\ LET n == Len(dailyResults)
       IN  /\ dailyResults[n - 2].signal = "hedge"
           /\ dailyResults[n - 1].signal = "hedge"
           /\ dailyResults[n - 1].indexPrice # dailyResults[n - 2].indexPrice
           /\ dailyResults[n].signal = "long"
           /\ dailyResults[n].indexPrice * 100 = dailyResults[n].maValue
           /\ dailyResults[n].hedgeContracts = 0

(***************************************************************************)
(* C27.  A rebalance trade is cash-neutral: on a day where a rebalance buy *)
(* or sell executes, etfShares*1000*etfPrice + hedgeCapital at that day's  *)
(* ETF price is the same just before and just after the trade, and the     *)
(* totalEquityAfter of the rebalance entry is that value.                  *)
(***************************************************************************)
C27_Step ==
    (DayStep /\ CountType(NewLogs, "rebalance") > 0) =>
        LET entry == NewLogs[1]
            before == etfShares * 1000 * Today.etfPrice + hedgeCapital
            after == entry.etfSharesAfter * 1000 * Today.etfPrice
                         + entry.hedgeCapitalAfter
        IN  /\ entry.type = "rebalance"
            /\ entry.price = Today.etfPrice
            /\ entry.etfSharesAfter = etfShares + entry.shares
            /\ entry.amount = (IF entry.shares < 0 THEN -entry.shares ELSE entry.shares)
                                  * 1000 * Today.etfPrice
            /\ after = before
            /\ entry.totalEquityAfter = before
            /\ etfShares' = entry.etfSharesAfter

C27_RebalanceIsCashNeutral == [][C27_Step]_vars

\* A rebalance sell: the entry after another one, with lots sold, whose
\* amount went to the reserve.
C27_Witness ==
    \E e \in 2..Len(tradeLogs) :
        /\ tradeLogs[e].type = "rebalance"
        /\ tradeLogs[e].shares < 0
        /\ tradeLogs[e].hedgeCapitalAfter > tradeLogs[e - 1].hedgeCapitalAfter
        /\ tradeLogs[e].hedgeCapitalAfter - tradeLogs[e - 1].hedgeCapitalAfter
              = tradeLogs[e].amount
        /\ tradeLogs[e].etfSharesAfter * 1000 * tradeLogs[e].price
              + tradeLogs[e].hedgeCapitalAfter = tradeLogs[e].totalEquityAfter

(***************************************************************************)
(* C28.  Month-boundary detection compares the month of consecutive        *)
(* in-range entries and not their year: a day whose month is the month of  *)
(* the entry before it, a year or more later, is not a month change.  No   *)
(* rebalance entry is logged on it and the share count is left alone,      *)
(* whatever the deviation; the month remembered for the next day is the    *)
(* same as before.                                                         *)
(***************************************************************************)
SameMonthOtherYear(today, yesterday) ==
    /\ today.y # yesterday.y
    /\ MonthSeen(today) = MonthSeen(yesterday)

C28_Step ==
    (DayStep /\ i > 0 /\ SameMonthOtherYear(Today.date, Yesterday.date)) =>
        /\ CountType(NewLogs, "rebalance") = 0
        /\ etfShares' = etfShares
        /\ rebalanceTrades' = rebalanceTrades
        /\ lastMonth' = lastMonth

C28_NoRebalanceOverYearGap ==
    /\ [][C28_Step]_vars
    /\ [](\A k \in 2..Len(dailyResults) :
             SameMonthOtherYear(dailyResults[k].date, dailyResults[k - 1].date)
                 => ~RebalanceOn(tradeLogs, dailyResults[k].date))

\* Rebalancing on, 2024-03-01 followed by 2025-03-03 with no hedge open at
\* the end of the former, the ETF a lot or more and more than 1% of the
\* total off its target at the latter's price, and no rebalance logged.
C28_Witness ==
    /\ params.enableRebalance
    /\ Len(dailyResults) >= 2
    /\ LET n == Len(dailyResults)
           before == dailyResults[n - 1]
           etf == before.etfShares * 1000 * dailyResults[n].etfPrice
           off == (etf + before.hedgeCapital) * params.etfRatio.num
                     - etf * params.etfRatio.den
           oneLot == params.etfRatio.den * dailyResults[n].etfPrice * 1000
           onePercent == ((etf + before.hedgeCapital) * params.etfRatio.den) \div 100
       IN  /\ SameMonthOtherYear(dailyResults[n].date, before.date)
           /\ before.hedgeContracts = 0
           /\ (IF off < 0 THEN -off ELSE off) >= oneLot
           /\ (IF off < 0 THEN -off ELSE off) > onePercent
           /\ dailyResults[n].etfShares = before.etfShares
           /\ ~RebalanceOn(tradeLogs, dailyResults[n].date)

(***************************************************************************)
(* C29.  The two runBacktest definitions agree when rebalancing is off:    *)
(* with enableRebalance = false the engine with trade logs returns the     *)
(* dailyResults and the summary fields finalEquity, totalReturn,           *)
(* totalReturnPercent, maxDrawdown, totalHedgePnL and hedgeTrades of the   *)
(* earlier engine on the same series and parameters, its rebalanceTrades   *)
(* is 0, and it throws exactly when the earlier engine throws.             *)
(***************************************************************************)
ComparedFields ==
    {"finalEquity", "totalReturn", "totalReturnPercent", "maxDrawdown",
     "totalHedgePnL", "hedgeTrades"}

C29_EnginesAgreeWithoutRebalance ==
    (~params.enableRebalance /\ pc \in {"done", "failed"}) =>
        LET earlier == EarlierRunBacktest(data, params)
        IN  IF pc = "failed"
            THEN "thrown" \in DOMAIN earlier /\ earlier.thrown = thrown
            ELSE /\ "dailyResults" \in DOMAIN earlier
                 /\ result[1].dailyResults = earlier.dailyResults
                 /\ \A f \in ComparedFields :
                        result[1].summary[f] = earlier.summary[f]
                 /\ result[1].summary.rebalanceTrades = 0

\* A finished run with rebalancing off over a month change, in which a
\* hedge was opened and closed and the ETF ended a lot or more off target.
C29_Witness ==
    /\ pc = "done"
    /\ ~params.enableRebalance
    /\ Len(dailyResults) >= 3
    /\ result[1].summary.hedgeTrades >= 1
    /\ result[1].summary.totalHedgePnL # 0
    /\ result[1].summary.maxDrawdown.n > 0
    /\ \E k \in 2..Len(dailyResults) :
           /\ MonthSeen(dailyResults[k].date) # MonthSeen(dailyResults[k - 1].date)
           /\ dailyResults[k - 1].hedgeContracts = 0
           /\ LET etf == dailyResults[k].etfValue
                  total == etf + dailyResults[k - 1].hedgeCapital
                  off == total * params.etfRatio.num - etf * params.etfRatio.den
              IN  /\ (IF off < 0 THEN -off ELSE off)
                         >= params.etfRatio.den * dailyResults[k].etfPrice * 1000
                  /\ (IF off < 0 THEN -off ELSE off)
                         > (total * params.etfRatio.den) \div 100
    /\ result[1].dailyResults = EarlierRunBacktest(data, params).dailyResults

(***************************************************************************)
(* C30.  No hedge is opened on a reserve below marginPerContract *         *)
(* safetyMultiplier, in particular after a hedge closed at a loss that     *)
(* left the reserve at or below 0: on a below-MA day that starts without a *)
(* hedge and whose reserve is below that amount, hedgeContracts stays 0,   *)
(* no hedge_open entry is logged, hedgeTrades is not counted up and the    *)
(* day's signal is 'none' although the MA is defined.  hedgeContracts is   *)
(* never negative.                                                         *)
(***************************************************************************)
ReserveTooSmall(hc) == hc < params.marginPerContract * params.safetyMultiplier

C30_Step ==
    (/\ DayStep
     /\ hedgeContracts = 0
     /\ maValues[i + 1] > 0
     /\ Today.indexPrice * 100 < maValues[i + 1]
     /\ ReserveTooSmall(hedgeCapital')) =>
        /\ hedgeContracts' = 0
        /\ hedgeTrades' = hedgeTrades
        /\ CountType(NewLogs, "hedge_open") = 0
        /\ dailyResults'[i + 1].signal = "none"
        /\ dailyResults'[i + 1].hedgeContracts = 0

C30_NoHedgeOnSmallReserve ==
    /\ [][C30_Step]_vars
    /\ [](hedgeContracts >= 0)

\* A hedge closed at a loss that left the reserve at or below 0, and a later
\* day below a defined MA, the reserve still at or below 0, with no hedge
\* and the signal 'none'.
C30_Witness ==
    \E k \in 2..Len(dailyResults) :
        \E j \in (k + 1)..Len(dailyResults) :
            /\ dailyResults[k - 1].hedgeContracts > 0
            /\ dailyResults[k].hedgeContracts = 0
            /\ dailyResults[k].hedgePnL < 0
            /\ \A m \in k..j : dailyResults[m].hedgeCapital <= 0
            /\ dailyResults[j].maValue > 0
            /\ dailyResults[j].indexPrice * 100 < dailyResults[j].maValue
            /\ dailyResults[j].hedgeContracts = 0
            /\ dailyResults[j].signal = "none"

====
